---- MODULE Spec2Model ----
(***************************************************************************)
(* Model of scripts/init_motor_data.py: the transport adapter api_request  *)
(* and the provisioning pipeline main, run against a remote system whose    *)
(* responses are chosen nondeterministically.                               *)
(***************************************************************************)
EXTENDS Integers, Sequences, FiniteSets, TLC

(***************************************************************************)
(* Bounds of the model.                                                     *)
(***************************************************************************)
\* largest collection the remote system returns from a collection GET
MaxItems == 2
\* number of distinct clock readings time.time() may give (offsets 0..MaxClock)
MaxClock == 1

(***************************************************************************)
(* Python values.  Every value is a record tagged by t.                     *)
(***************************************************************************)
None == [t |-> "none"]
Str(s) == [t |-> "str", s |-> s]
Num(n) == [t |-> "num", n |-> n]
Float(repr) == [t |-> "float", repr |-> repr]
Bool(b) == [t |-> "bool", b |-> b]
List(l) == [t |-> "list", l |-> l]
Dict(kv) == [t |-> "dict", kv |-> kv]
\* a local variable that has not been assigned yet
Unset == [t |-> "unset"]

\* Response texts: the serialization of a JSON value, or text that is not JSON.
JsonText(v) == [json |-> v]
PlainText(s) == [raw |-> s]
\* the str that bytes.decode('utf-8') gives for a response text
Decode(text) == [t |-> "str", text |-> text]
\* the character at position k of a str
CharAt(v, k) == [t |-> "str", of |-> v, at |-> k]

\* results of evaluating an expression: a value or a raised exception
Ok(v) == [exc |-> "none", v |-> v]
Raise(e) == [exc |-> e]
Then(r, Op(_)) == IF r.exc # "none" THEN r ELSE Op(r.v)

\* lengths of the plain (non-JSON) texts the remote system sends
RawLen(s) ==
  CASE s = "" -> 0
    [] s = "error" -> 5
    [] s = "duplicate" -> 9
    [] s = "Unauthorized" -> 12

StrLen(v) ==
  IF "of" \in DOMAIN v THEN 1 ELSE RawLen(v.text.raw)

HasKey(v, k) == \E n \in 1..Len(v.kv) : v.kv[n][1] = k
KeyValue(v, k) == v.kv[CHOOSE n \in 1..Len(v.kv) : v.kv[n][1] = k][2]

\* x[k] for a str key k
GetKey(x, k) ==
  IF x.t = "dict"
  THEN IF HasKey(x, k) THEN Ok(KeyValue(x, k)) ELSE Raise("KeyError")
  ELSE Raise("TypeError")

\* x[n] for an int index n >= 0
GetIndex(x, n) ==
  CASE x.t = "list" -> IF n < Len(x.l) THEN Ok(x.l[n + 1]) ELSE Raise("IndexError")
    [] x.t = "str" -> IF n < StrLen(x) THEN Ok(CharAt(x, n)) ELSE Raise("IndexError")
    [] x.t = "dict" -> Raise("KeyError")
    [] OTHER -> Raise("TypeError")

\* len(x)
PyLen(x) ==
  CASE x.t = "list" -> Ok(Len(x.l))
    [] x.t = "str" -> Ok(StrLen(x))
    [] x.t = "dict" -> Ok(Len(x.kv))
    [] OTHER -> Raise("TypeError")

\* the sequence of values a for loop over x visits
Iter(x) ==
  CASE x.t = "list" -> Ok(x.l)
    [] x.t = "str" -> Ok([k \in 1..StrLen(x) |-> CharAt(x, k - 1)])
    [] x.t = "dict" -> Ok([k \in 1..Len(x.kv) |-> Str(x.kv[k][1])])
    [] OTHER -> Raise("TypeError")

\* x.get(k, default)
DictGet(x, k, default) ==
  IF x.t = "dict"
  THEN Ok(IF HasKey(x, k) THEN KeyValue(x, k) ELSE default)
  ELSE Raise("AttributeError")

\* bool(x)
Truthy(x) ==
  CASE x.t = "none" -> FALSE
    [] x.t = "bool" -> x.b
    [] x.t = "num" -> x.n # 0
    [] x.t = "float" -> x.repr # "0.0"
    [] x.t = "str" -> IF "s" \in DOMAIN x THEN x.s # "" ELSE StrLen(x) > 0
    [] x.t = "list" -> Len(x.l) > 0
    [] x.t = "dict" -> Len(x.kv) > 0

\* x[:50]
Slice50(x) ==
  IF x.t \in {"str", "list"} THEN Ok(x) ELSE Raise("TypeError")

json_dumps(data) == JsonText(data)
json_loads(text) ==
  IF "json" \in DOMAIN text THEN Ok(text.json) ELSE Raise("JSONDecodeError")

(***************************************************************************)
(* api_request                                                              *)
(***************************************************************************)
API_BASE == "http://localhost:5000/api"

IsSuccess(code) == 200 <= code /\ code < 300

Headers(token) ==
  IF Truthy(token)
  THEN << <<"Content-Type", "application/json">>, <<"Authorization", <<"Bearer", token>> >> >>
  ELSE << <<"Content-Type", "application/json">> >>

\* the urllib Request that api_request builds
Request(method, endpoint, data, token) ==
  [method |-> method,
   url |-> <<API_BASE, endpoint>>,
   headers |-> Headers(token),
   body |-> IF Truthy(data) THEN json_dumps(data) ELSE None]

\* api_request that takes the items of every mapping, an empty list when the
\* mapping has none
api_request_items_default(raw) ==
  IF IsSuccess(raw.status)
  THEN LET resp_data == json_loads(raw.text) IN
       IF resp_data.exc # "none" THEN resp_data
       ELSE IF resp_data.v.t = "dict"
            THEN Ok([status |-> raw.status,
                     body |-> IF HasKey(resp_data.v, "items")
                              THEN KeyValue(resp_data.v, "items") ELSE List(<<>>)])
            ELSE Ok([status |-> raw.status, body |-> resp_data.v])
  ELSE Ok([status |-> raw.status, body |-> Decode(raw.text)])

\* api_request that parses and unwraps the body whatever the status
api_request_parses_errors(raw) ==
  LET resp_data == json_loads(raw.text) IN
  IF resp_data.exc # "none" THEN resp_data
  ELSE IF resp_data.v.t = "dict" /\ HasKey(resp_data.v, "items")
       THEN Ok([status |-> raw.status, body |-> KeyValue(resp_data.v, "items")])
       ELSE Ok([status |-> raw.status, body |-> resp_data.v])

\* api_request without the unwrapping of the pagination envelope
api_request_envelope(raw) ==
  IF IsSuccess(raw.status)
  THEN LET resp_data == json_loads(raw.text) IN
       IF resp_data.exc # "none" THEN resp_data
       ELSE Ok([status |-> raw.status, body |-> resp_data.v])
  ELSE Ok([status |-> raw.status, body |-> Decode(raw.text)])

\* the value api_request returns, or the exception it lets through, when the
\* remote system answers with raw = [status, text]
api_request(raw) ==
  IF IsSuccess(raw.status)
  THEN LET resp_data == json_loads(raw.text) IN
       IF resp_data.exc # "none" THEN resp_data
       ELSE IF resp_data.v.t = "dict" /\ HasKey(resp_data.v, "items")
            THEN Ok([status |-> raw.status, body |-> KeyValue(resp_data.v, "items")])
            ELSE Ok([status |-> raw.status, body |-> resp_data.v])
  ELSE Ok([status |-> raw.status, body |-> Decode(raw.text)])

(***************************************************************************)
(* The fixed payloads of main                                               *)
(***************************************************************************)
LoginBody ==
  Dict(<< <<"username", Str("admin")>>, <<"password", Str("admin123")>> >>)

motor_models ==
  << Dict(<< <<"name", Str("Standard Induction Motor 15kW")>>,
             <<"description", Str("Three-phase induction motor for industrial drive")>>,
             <<"type", Num(0)>>,
             <<"ratedPower", Float("15.0")>>,
             <<"ratedVoltage", Num(380)>>,
             <<"ratedCurrent", Num(30)>>,
             <<"ratedSpeed", Num(1480)>>,
             <<"ratedFrequency", Num(50)>>,
             <<"polePairs", Num(2)>>,
             <<"vfdModel", Str("ABB ACS580")>>,
             <<"bearingModel", Str("SKF 6308")>>,
             <<"bearingRollingElements", Num(8)>>,
             <<"bearingBallDiameter", Float("15.875")>>,
             <<"bearingPitchDiameter", Float("58.5")>>,
             <<"bearingContactAngle", Num(0)>> >>),
     Dict(<< <<"name", Str("VFD Motor 7.5kW")>>,
             <<"description", Str("Variable frequency drive motor")>>,
             <<"type", Num(0)>>,
             <<"ratedPower", Float("7.5")>>,
             <<"ratedVoltage", Num(380)>>,
             <<"ratedCurrent", Num(15)>>,
             <<"ratedSpeed", Num(1450)>>,
             <<"ratedFrequency", Num(50)>>,
             <<"polePairs", Num(2)>>,
             <<"vfdModel", Str("Siemens G120")>>,
             <<"bearingModel", Str("SKF 6206")>> >>) >>

\* the two instance payloads, given the modelId values they reference
MotorInstances(modelId0, modelId1) ==
  << Dict(<< <<"modelId", modelId0>>,
             <<"deviceId", Str("Motor-001")>>,
             <<"name", Str("Main Drive Motor #1")>>,
             <<"location", Str("Workshop A - Line 1")>>,
             <<"installDate", Str("2024-01-15")>>,
             <<"assetNumber", Str("MTR-2024-001")>> >>),
     Dict(<< <<"modelId", modelId1>>,
             <<"deviceId", Str("SIM-PLC-001")>>,
             <<"name", Str("Auxiliary Motor #2")>>,
             <<"location", Str("Workshop A - Line 2")>>,
             <<"installDate", Str("2024-03-20")>>,
             <<"assetNumber", Str("MTR-2024-002")>> >>) >>

Mapping(parameter, tagId, scaleFactor, used) ==
  Dict(<< <<"parameter", Num(parameter)>>, <<"tagId", Str(tagId)>>,
          <<"scaleFactor", scaleFactor>>, <<"offset", Num(0)>>,
          <<"usedForDiagnosis", Bool(used)>> >>)

parameter_mappings ==
  Dict(<< <<"Motor-001",
            List(<< Mapping(40, "Motor1_Temp", Float("1.0"), TRUE),
                    Mapping(3, "Motor1_Current", Float("1.0"), TRUE),
                    Mapping(21, "Motor1_Speed", Num(30), TRUE),
                    Mapping(20, "Torque", Float("1.0"), TRUE) >>)>>,
          <<"SIM-PLC-001",
            List(<< Mapping(40, "Motor1_Temp", Float("1.0"), TRUE),
                    Mapping(3, "Motor1_Current", Float("1.0"), TRUE),
                    Mapping(21, "Motor1_Speed", Num(30), TRUE),
                    Mapping(34, "Motor1_Running", Float("1.0"), FALSE) >>)>> >>)

Mode(name, description, lo, hi, minDurationMs, priority) ==
  Dict(<< <<"name", Str(name)>>, <<"description", Str(description)>>,
          <<"triggerTagId", Str("Motor1_Speed")>>,
          <<"triggerMinValue", Num(lo)>>, <<"triggerMaxValue", Num(hi)>>,
          <<"minDurationMs", Num(minDurationMs)>>, <<"maxDurationMs", Num(0)>>,
          <<"priority", Num(priority)>> >>)

operation_modes ==
  << Mode("Normal Operation", "Motor running at normal speed", 30, 60, 5000, 1),
     Mode("Low Speed", "Motor running at low speed", 10, 30, 3000, 2),
     Mode("Idle/Standby", "Motor idle or standby", 0, 10, 2000, 3) >>

\* the learning window is one hour, in milliseconds
HourMs == 60 * 60 * 1000

(***************************************************************************)
(* The remote system: the responses it may give to each request.            *)
(***************************************************************************)
Raw(status, text) == [status |-> status, text |-> text]

\* DeviceId of the k-th instance the remote system holds
DeviceOf(k) ==
  CASE k % 3 = 1 -> "SIM-PLC-001"
    [] k % 3 = 2 -> "Unknown-999"
    [] k % 3 = 0 -> "Motor-001"

ModelEntity(k) ==
  Dict(<< <<"modelId", Num(100 + k)>>, <<"name", Str("model")>> >>)
InstanceEntity(k) ==
  Dict(<< <<"instanceId", Num(k)>>, <<"deviceId", Str(DeviceOf(k))>>,
          <<"name", Str("instance")>> >>)
\* entities that lack a field the pipeline reads
NamelessModel == Dict(<< <<"modelId", Num(100)>> >>)
NamelessInstance ==
  Dict(<< <<"instanceId", Num(0)>>, <<"deviceId", Str("Motor-001")>> >>)
DevicelessInstance ==
  Dict(<< <<"instanceId", Num(0)>>, <<"name", Str("instance")>> >>)

RemoteModels(n) == List([k \in 1..n |-> ModelEntity(k)])
RemoteInstances(n) == List([k \in 1..n |-> InstanceEntity(k)])
\* the pagination envelope around a list
Page(list) ==
  Dict(<< <<"items", list>>, <<"totalCount", Num(Len(list.l))>>,
          <<"pageNumber", Num(1)>>, <<"pageSize", Num(20)>> >>)

LoginResponses ==
  { Raw(200, JsonText(Dict(<< <<"data", Dict(<< <<"token", Str(tok)>> >>)>> >>))) :
        tok \in {"abc", ""} }
  \cup { Raw(200, JsonText(Dict(<< <<"data", Dict(<< <<"token", Num(7)>> >>)>> >>))),
         Raw(200, JsonText(Dict(<< <<"data", Dict(<<>>)>> >>))),
         Raw(200, JsonText(Dict(<< <<"token", Str("abc")>> >>))),
         Raw(200, PlainText("")),
         Raw(401, PlainText("Unauthorized")),
         Raw(401, JsonText(Dict(<< <<"data", Dict(<< <<"token", Str("abc")>> >>)>> >>))) }

\* answers to the POST of item n of motor_models (n = 0, 1)
CreateModelResponses(n) ==
  { Raw(201, JsonText(ModelEntity(n + 1))),
    Raw(201, JsonText(NamelessModel)),
    Raw(200, JsonText(ModelEntity(n + 1))),
    Raw(409, PlainText("duplicate")) }

ListModelsResponses ==
  { Raw(200, JsonText(RemoteModels(n))) : n \in 0..MaxItems }
  \cup { Raw(200, JsonText(Page(RemoteModels(MaxItems)))) }
  \cup { Raw(200, JsonText(None)),
         Raw(500, PlainText("error")) }

DevicesResponses ==
  { Raw(200, JsonText(List(<< Dict(<< <<"deviceId", Str("Motor-001")>> >>) >>))),
    Raw(200, JsonText(Dict(<< <<"data", List(<< Str("dev") >>)>> >>))),
    Raw(200, JsonText(Dict(<< <<"data", Str("dev")>> >>))),
    Raw(200, JsonText(Dict(<< <<"message", Str("dev")>> >>))),
    Raw(200, JsonText(Num(3))),
    Raw(500, PlainText("error")) }

\* the entity the remote system makes of a payload: it adds the identifier
Created(payload, id) == Dict(<< <<"instanceId", Num(id)>> >> \o payload.kv)

\* answers to the POST of the instance payload inst, item n of motor_instances
CreateInstanceResponses(n, inst) ==
  { Raw(201, JsonText(Created(inst, 11 + n))),
    Raw(201, JsonText(NamelessInstance)),
    Raw(409, PlainText("duplicate")) }

ListInstancesResponses ==
  { Raw(200, JsonText(RemoteInstances(n))) : n \in 0..MaxItems }
  \cup { Raw(200, JsonText(Page(RemoteInstances(MaxItems)))),
         Raw(200, JsonText(List(<< DevicelessInstance >>))),
         Raw(500, PlainText("error")) }

\* answers to the GET of the instance collection of the verification stage
VerifyResponses ==
  { Raw(200, JsonText(RemoteInstances(n))) : n \in 0..MaxItems }
  \cup { Raw(200, JsonText(Page(RemoteInstances(MaxItems)))),
         Raw(500, PlainText("error")) }

MappingsResponses ==
  { Raw(200, JsonText(Dict(<< <<"created", Num(4)>> >>))),
    Raw(200, JsonText(Dict(<<>>))),
    Raw(400, PlainText("error")) }

ModeResponses ==
  { Raw(201, JsonText(Dict(<< <<"modeId", Num(1)>> >>))),
    Raw(201, PlainText("")),
    Raw(409, PlainText("duplicate")) }

LearnResponses ==
  { Raw(200, JsonText(Dict(<< <<"started", Bool(TRUE)>> >>))),
    Raw(500, PlainText("error")) }

DetailResponses ==
  { Raw(200, JsonText(Dict(<< <<"model", Dict(<< <<"name", Str("model")>> >>)>>,
                              <<"mappings", List(<<>>)>>, <<"modes", List(<<>>)>>,
                              <<"baselineCount", Num(0)>> >>))),
    Raw(200, JsonText(Dict(<< <<"model", Str("model")>> >>))),
    Raw(404, PlainText("error")) }

DiagnoseResponses ==
  { Raw(200, JsonText(Dict(<< <<"healthScore", Num(90)>> >>))),
    Raw(200, JsonText(List(<<>>))),
    Raw(500, PlainText("error")) }

(***************************************************************************)
(* main: the state of one run                                               *)
(***************************************************************************)
VARIABLES
  pc,                \* the request site main is about to execute
  exc,               \* the exception that ended the run, "none" while it runs
  status, resp,      \* the pair returned by the latest api_request
  token,
  created_models,
  devices,
  motor_instances,
  created_instances,
  i, j,              \* positions of the for loops (item, mode)
  end_ts, start_ts,
  instances,
  detail,
  result,
  log,               \* every request issued so far, in order
  raws               \* the raw responses received: by a lone api_request call,
                     \* by login, and by each of the two create stages

locals == <<status, resp, token, created_models, devices, motor_instances,
            created_instances, end_ts, start_ts, instances, detail, result>>
vars == <<pc, exc, i, j, log, raws, locals>>

\* the section of main that a request site belongs to
Stage(p) ==
  CASE p = "login" -> 1
    [] p \in {"create_models", "discover_models"} -> 2
    [] p = "get_devices" -> 3
    [] p \in {"build_instances", "create_instances", "discover_instances"} -> 4
    [] p = "mappings" -> 5
    [] p = "modes" -> 6
    [] p \in {"start_learning", "learn"} -> 7
    [] p \in {"verify", "detail"} -> 8
    [] p = "diagnose" -> 9
    [] p = "done" -> 10

\* the clock readings int(time.time() * 1000) may give
ClockReadings == { 2000000000 + off : off \in 0..MaxClock }

Sent(k, req) == Append(log, [stage |-> Stage(pc), k |-> k, req |-> req])

NoRaws ==
  [call |-> <<>>, login |-> <<>>, models |-> <<>>, devices |-> <<>>, instances |-> <<>>]

Init ==
  /\ pc = "login"
  /\ exc = "none"
  /\ i = 0
  /\ j = 0
  /\ log = <<>>
  /\ raws = NoRaws
  /\ status = Unset
  /\ resp = Unset
  /\ token = Unset
  /\ created_models = Unset
  /\ devices = Unset
  /\ motor_instances = Unset
  /\ created_instances = Unset
  /\ end_ts = Unset
  /\ start_ts = Unset
  /\ instances = Unset
  /\ detail = Unset
  /\ result = Unset

\* the assignment "status, target = api_request(...)" for the variable status
Returned(r, old) == IF r.exc = "none" THEN Num(r.v.status) ELSE old
\* ... and for the variable the body is assigned to
Body(r, old) == IF r.exc = "none" THEN r.v.body ELSE old

\* Login that goes on without a token when none can be extracted
Login_Continues ==
  /\ pc = "login" /\ exc = "none"
  /\ \E raw \in LoginResponses :
       LET r == api_request(raw)
           tok == Then(r, LAMBDA x : Then(GetKey(x.body, "data"),
                                          LAMBDA d : GetKey(d, "token")))
           shown == Then(tok, Slice50)
       IN /\ log' = Sent(0, Request("POST", <<"/auth/login">>, LoginBody, None))
          /\ raws' = [raws EXCEPT !.login = Append(@, raw)]
          /\ status' = Returned(r, status)
          /\ resp' = Body(r, resp)
          /\ token' = IF tok.exc = "none" THEN tok.v ELSE None
          /\ exc' = "none"
          /\ pc' = "create_models"
          /\ created_models' = List(<<>>)
  /\ UNCHANGED <<i, j, devices, motor_instances, created_instances,
                 end_ts, start_ts, instances, detail, result>>

\* lines 32-36
Login ==
  /\ pc = "login" /\ exc = "none"
  /\ \E raw \in LoginResponses :
       LET r == api_request(raw)
           tok == Then(r, LAMBDA x : Then(GetKey(x.body, "data"),
                                          LAMBDA d : GetKey(d, "token")))
           shown == Then(tok, Slice50)
       IN /\ log' = Sent(0, Request("POST", <<"/auth/login">>, LoginBody, None))
          /\ raws' = [raws EXCEPT !.login = Append(@, raw)]
          /\ status' = Returned(r, status)
          /\ resp' = Body(r, resp)
          /\ token' = IF tok.exc = "none" THEN tok.v ELSE token
          /\ exc' = shown.exc
          /\ pc' = IF shown.exc = "none" THEN "create_models" ELSE pc
          /\ created_models' = IF shown.exc = "none" THEN List(<<>>) ELSE created_models
  /\ UNCHANGED <<i, j, devices, motor_instances, created_instances,
                 end_ts, start_ts, instances, detail, result>>

\* CreateModel that leaves the loop at the first item that is not created
CreateModel_StopsOnError ==
  /\ pc = "create_models" /\ exc = "none"
  /\ \E raw \in CreateModelResponses(i) :
       LET model == motor_models[i + 1]
           r == api_request(raw)
           created == r.exc = "none" /\ r.v.status = 201
           cm == IF created THEN List(Append(created_models.l, r.v.body))
                 ELSE created_models
           shown == IF r.v.status = 201
                    THEN Then(GetKey(r.v.body, "name"),
                              LAMBDA n : GetKey(r.v.body, "modelId"))
                    ELSE GetKey(model, "name")
           final == Then(r, LAMBDA x : shown)
       IN /\ log' = Sent(i, Request("POST", <<"/motor-models">>, model, token))
          /\ raws' = [raws EXCEPT !.models = Append(@, raw)]
          /\ status' = Returned(r, status)
          /\ resp' = Body(r, resp)
          /\ created_models' = cm
          /\ exc' = final.exc
          /\ IF final.exc # "none" THEN UNCHANGED <<pc, i>>
             ELSE IF i + 1 < Len(motor_models) /\ created
                  THEN i' = i + 1 /\ UNCHANGED pc
             ELSE /\ i' = 0
                  /\ pc' = IF Truthy(cm) THEN "get_devices" ELSE "discover_models"
  /\ UNCHANGED <<j, token, devices, motor_instances, created_instances,
                 end_ts, start_ts, instances, detail, result>>

\* CreateModel that takes every 2xx status for a creation
CreateModel_AnySuccess ==
  /\ pc = "create_models" /\ exc = "none"
  /\ \E raw \in CreateModelResponses(i) :
       LET model == motor_models[i + 1]
           r == api_request(raw)
           created == r.exc = "none" /\ IsSuccess(r.v.status)
           cm == IF created THEN List(Append(created_models.l, r.v.body))
                 ELSE created_models
           shown == IF r.v.status = 201
                    THEN Then(GetKey(r.v.body, "name"),
                              LAMBDA n : GetKey(r.v.body, "modelId"))
                    ELSE GetKey(model, "name")
           final == Then(r, LAMBDA x : shown)
       IN /\ log' = Sent(i, Request("POST", <<"/motor-models">>, model, token))
          /\ raws' = [raws EXCEPT !.models = Append(@, raw)]
          /\ status' = Returned(r, status)
          /\ resp' = Body(r, resp)
          /\ created_models' = cm
          /\ exc' = final.exc
          /\ IF final.exc # "none" THEN UNCHANGED <<pc, i>>
             ELSE IF i + 1 < Len(motor_models) THEN i' = i + 1 /\ UNCHANGED pc
             ELSE /\ i' = 0
                  /\ pc' = IF Truthy(cm) THEN "get_devices" ELSE "discover_models"
  /\ UNCHANGED <<j, token, devices, motor_instances, created_instances,
                 end_ts, start_ts, instances, detail, result>>

\* lines 74-80, and the test of line 82 after the last item
CreateModel ==
  /\ pc = "create_models" /\ exc = "none"
  /\ \E raw \in CreateModelResponses(i) :
       LET model == motor_models[i + 1]
           r == api_request(raw)
           created == r.exc = "none" /\ r.v.status = 201
           cm == IF created THEN List(Append(created_models.l, r.v.body))
                 ELSE created_models
           shown == IF r.v.status = 201
                    THEN Then(GetKey(r.v.body, "name"),
                              LAMBDA n : GetKey(r.v.body, "modelId"))
                    ELSE GetKey(model, "name")
           final == Then(r, LAMBDA x : shown)
       IN /\ log' = Sent(i, Request("POST", <<"/motor-models">>, model, token))
          /\ raws' = [raws EXCEPT !.models = Append(@, raw)]
          /\ status' = Returned(r, status)
          /\ resp' = Body(r, resp)
          /\ created_models' = cm
          /\ exc' = final.exc
          /\ IF final.exc # "none" THEN UNCHANGED <<pc, i>>
             ELSE IF i + 1 < Len(motor_models) THEN i' = i + 1 /\ UNCHANGED pc
             ELSE /\ i' = 0
                  /\ pc' = IF Truthy(cm) THEN "get_devices" ELSE "discover_models"
  /\ UNCHANGED <<j, token, devices, motor_instances, created_instances,
                 end_ts, start_ts, instances, detail, result>>

\* DiscoverModels that does not take the collection as the working set
DiscoverModels_Dropped ==
  /\ pc = "discover_models" /\ exc = "none"
  /\ \E raw \in ListModelsResponses :
       LET r == api_request(raw)
           final == Then(r, LAMBDA x : PyLen(x.body))
       IN /\ log' = Sent(0, Request("GET", <<"/motor-models">>, None, token))
          /\ raws' = [raws EXCEPT !.models = Append(@, raw)]
          /\ status' = Returned(r, status)
          /\ resp' = Body(r, resp)
          /\ created_models' = created_models
          /\ exc' = final.exc
          /\ pc' = IF final.exc = "none" THEN "get_devices" ELSE pc
  /\ UNCHANGED <<i, j, token, devices, motor_instances, created_instances,
                 end_ts, start_ts, instances, detail, result>>

\* lines 83-86
DiscoverModels ==
  /\ pc = "discover_models" /\ exc = "none"
  /\ \E raw \in ListModelsResponses :
       LET r == api_request(raw)
           final == Then(r, LAMBDA x : PyLen(x.body))
       IN /\ log' = Sent(0, Request("GET", <<"/motor-models">>, None, token))
          /\ raws' = [raws EXCEPT !.models = Append(@, raw)]
          /\ status' = Returned(r, status)
          /\ resp' = Body(r, resp)
          /\ created_models' = Body(r, created_models)
          /\ exc' = final.exc
          /\ pc' = IF final.exc = "none" THEN "get_devices" ELSE pc
  /\ UNCHANGED <<i, j, token, devices, motor_instances, created_instances,
                 end_ts, start_ts, instances, detail, result>>

\* lines 92-99: what the devices stage makes of the body it received
CoerceDevices(body) ==
  IF body.t = "str" THEN List(<<>>)
  ELSE IF body.t = "dict" /\ HasKey(body, "data")
       THEN IF KeyValue(body, "data").t = "list" THEN KeyValue(body, "data")
            ELSE List(<<>>)
       ELSE body

\* lines 90-103
GetDevices ==
  /\ pc = "get_devices" /\ exc = "none"
  /\ \E raw \in DevicesResponses :
       LET r == api_request(raw)
           final == Then(r, LAMBDA x : PyLen(CoerceDevices(x.body)))
       IN /\ log' = Sent(0, Request("GET", <<"/devices">>, None, token))
          /\ status' = Returned(r, status)
          /\ devices' = IF r.exc = "none" THEN CoerceDevices(r.v.body) ELSE devices
          /\ exc' = final.exc
          /\ pc' = IF final.exc = "none" THEN "build_instances" ELSE pc
          /\ raws' = [raws EXCEPT !.devices = Append(@, raw)]
  /\ UNCHANGED <<i, j, resp, token, created_models, motor_instances,
                 created_instances, end_ts, start_ts, instances, detail, result>>

\* ModelIdAt that always reads element 0
ModelIdAt_First(n) ==
  Then(GetIndex(created_models, 0), LAMBDA m : GetKey(m, "modelId"))

\* created_models[n]["modelId"]
ModelIdAt(n) ==
  Then(GetIndex(created_models, n), LAMBDA m : GetKey(m, "modelId"))

\* lines 107-126: the instance payloads are built from the model working set
BuildInstances ==
  /\ pc = "build_instances" /\ exc = "none"
  /\ LET first == ModelIdAt(0)
         more == Then(first, LAMBDA x : PyLen(created_models))
         second == Then(more, LAMBDA n : IF n > 1 THEN ModelIdAt(1) ELSE ModelIdAt(0))
     IN /\ exc' = second.exc
        /\ IF second.exc = "none"
           THEN /\ motor_instances' = MotorInstances(first.v, second.v)
                /\ created_instances' = List(<<>>)
                /\ pc' = "create_instances"
           ELSE UNCHANGED <<motor_instances, created_instances, pc>>
  /\ UNCHANGED <<i, j, log, raws, status, resp, token, created_models, devices,
                 end_ts, start_ts, instances, detail, result>>

\* CreateInstance that falls back whenever some item was not created
CreateInstance_Incomplete ==
  /\ pc = "create_instances" /\ exc = "none"
  /\ \E raw \in CreateInstanceResponses(i, motor_instances[i + 1]) :
       LET inst == motor_instances[i + 1]
           r == api_request(raw)
           created == r.exc = "none" /\ r.v.status = 201
           ci == IF created THEN List(Append(created_instances.l, r.v.body))
                 ELSE created_instances
           shown == IF r.v.status = 201
                    THEN Then(GetKey(r.v.body, "name"),
                              LAMBDA n : GetKey(r.v.body, "instanceId"))
                    ELSE GetKey(inst, "name")
           final == Then(r, LAMBDA x : shown)
       IN /\ log' = Sent(i, Request("POST", <<"/motor-instances">>, inst, token))
          /\ raws' = [raws EXCEPT !.instances = Append(@, raw)]
          /\ status' = Returned(r, status)
          /\ resp' = Body(r, resp)
          /\ created_instances' = ci
          /\ exc' = final.exc
          /\ IF final.exc # "none" THEN UNCHANGED <<pc, i>>
             ELSE IF i + 1 < Len(motor_instances) THEN i' = i + 1 /\ UNCHANGED pc
             ELSE /\ i' = 0
                  /\ pc' = IF Len(ci.l) >= Len(motor_instances) THEN "mappings"
                          ELSE "discover_instances"
  /\ UNCHANGED <<j, token, created_models, devices, motor_instances,
                 end_ts, start_ts, instances, detail, result>>

\* lines 127-133, and the test of line 135 after the last item
CreateInstance ==
  /\ pc = "create_instances" /\ exc = "none"
  /\ \E raw \in CreateInstanceResponses(i, motor_instances[i + 1]) :
       LET inst == motor_instances[i + 1]
           r == api_request(raw)
           created == r.exc = "none" /\ r.v.status = 201
           ci == IF created THEN List(Append(created_instances.l, r.v.body))
                 ELSE created_instances
           shown == IF r.v.status = 201
                    THEN Then(GetKey(r.v.body, "name"),
                              LAMBDA n : GetKey(r.v.body, "instanceId"))
                    ELSE GetKey(inst, "name")
           final == Then(r, LAMBDA x : shown)
       IN /\ log' = Sent(i, Request("POST", <<"/motor-instances">>, inst, token))
          /\ raws' = [raws EXCEPT !.instances = Append(@, raw)]
          /\ status' = Returned(r, status)
          /\ resp' = Body(r, resp)
          /\ created_instances' = ci
          /\ exc' = final.exc
          /\ IF final.exc # "none" THEN UNCHANGED <<pc, i>>
             ELSE IF i + 1 < Len(motor_instances) THEN i' = i + 1 /\ UNCHANGED pc
             ELSE /\ i' = 0
                  /\ pc' = IF Truthy(ci) THEN "mappings" ELSE "discover_instances"
  /\ UNCHANGED <<j, token, created_models, devices, motor_instances,
                 end_ts, start_ts, instances, detail, result>>

\* lines 136-139
DiscoverInstances ==
  /\ pc = "discover_instances" /\ exc = "none"
  /\ \E raw \in ListInstancesResponses :
       LET r == api_request(raw)
           final == Then(r, LAMBDA x : PyLen(x.body))
       IN /\ log' = Sent(0, Request("GET", <<"/motor-instances">>, None, token))
          /\ raws' = [raws EXCEPT !.instances = Append(@, raw)]
          /\ status' = Returned(r, status)
          /\ resp' = Body(r, resp)
          /\ created_instances' = Body(r, created_instances)
          /\ exc' = final.exc
          /\ pc' = IF final.exc = "none" THEN "mappings" ELSE pc
  /\ UNCHANGED <<i, j, token, created_models, devices, motor_instances,
                 end_ts, start_ts, instances, detail, result>>

\* the element a for loop over ws is at, given that the loop has one
Current(ws) == Iter(ws).v[i + 1]
\* TRUE when the for loop over ws has visited all its elements
Exhausted(ws) == Iter(ws).exc = "none" /\ i >= Len(Iter(ws).v)

\* key in d, for a dict d with str keys
InDict(key, d) ==
  CASE key.t \in {"list", "dict"} -> Raise("TypeError")
    [] key.t = "str" /\ "s" \in DOMAIN key -> Ok(HasKey(d, key.s))
    [] OTHER -> Ok(FALSE)

\* the endpoint f"/motor-instances/{inst['instanceId']}/<what>"
InstancePath(inst, what) ==
  Then(GetKey(inst, "instanceId"), LAMBDA id : Ok(<<"/motor-instances/", id, what>>))

\* LoopEnds that runs the mode section again after the learning section
LoopEnds_Back(ws, next) ==
  /\ Exhausted(ws)
  /\ pc' = IF next = "verify" THEN "modes" ELSE next
  /\ i' = 0
  /\ UNCHANGED <<exc, j, log, raws, locals>>

\* a for loop that has visited all elements falls through to the next section
LoopEnds(ws, next) ==
  /\ Exhausted(ws)
  /\ pc' = next
  /\ i' = 0
  /\ UNCHANGED <<exc, j, log, raws, locals>>

\* AttachMappings that posts a batch for every instance, empty when the table has no entry
AttachMappings_NoLookup ==
  /\ pc = "mappings" /\ exc = "none"
  /\ \/ LoopEnds(created_instances, "modes")
     \/ /\ Iter(created_instances).exc = "none" /\ ~Exhausted(created_instances)
        /\ LET inst == Current(created_instances)
               device_id == GetKey(inst, "deviceId")
               known == Then(device_id, LAMBDA d : InDict(d, parameter_mappings))
               path == InstancePath(inst, "/mappings/batch")
           IN IF known.exc # "none" \/ path.exc # "none"
              THEN /\ exc' = IF known.exc # "none" THEN known.exc ELSE path.exc
                   /\ UNCHANGED <<pc, i, log, status, resp>>
              ELSE \E raw \in MappingsResponses :
                     LET mappings == IF known.v
                                     THEN KeyValue(parameter_mappings, device_id.v.s)
                                     ELSE List(<<>>)
                         r == api_request(raw)
                         shown == IF r.v.status = 200
                                  THEN Then(GetKey(r.v.body, "created"),
                                            LAMBDA c : GetKey(inst, "name"))
                                  ELSE Ok(None)
                         final == Then(r, LAMBDA x : shown)
                     IN /\ log' = Sent(i, Request("POST", path.v, mappings, token))
                        /\ status' = Returned(r, status)
                        /\ resp' = Body(r, resp)
                        /\ exc' = final.exc
                        /\ i' = IF final.exc = "none" THEN i + 1 ELSE i
                        /\ UNCHANGED pc
        /\ UNCHANGED <<j, raws, token, created_models, devices, motor_instances,
                       created_instances, end_ts, start_ts, instances, detail, result>>

\* lines 158-171: one pass of the mapping loop
AttachMappings ==
  /\ pc = "mappings" /\ exc = "none"
  /\ \/ LoopEnds(created_instances, "modes")
     \/ /\ Iter(created_instances).exc = "none" /\ ~Exhausted(created_instances)
        /\ LET inst == Current(created_instances)
               device_id == GetKey(inst, "deviceId")
               known == Then(device_id, LAMBDA d : InDict(d, parameter_mappings))
               path == InstancePath(inst, "/mappings/batch")
           IN IF known.exc # "none" \/ (known.v /\ path.exc # "none")
              THEN /\ exc' = IF known.exc # "none" THEN known.exc ELSE path.exc
                   /\ UNCHANGED <<pc, i, log, status, resp>>
              ELSE IF ~known.v
              THEN /\ i' = i + 1
                   /\ UNCHANGED <<pc, exc, log, status, resp>>
              ELSE \E raw \in MappingsResponses :
                     LET mappings == KeyValue(parameter_mappings, device_id.v.s)
                         r == api_request(raw)
                         shown == IF r.v.status = 200
                                  THEN Then(GetKey(r.v.body, "created"),
                                            LAMBDA c : GetKey(inst, "name"))
                                  ELSE Ok(None)
                         final == Then(r, LAMBDA x : shown)
                     IN /\ log' = Sent(i, Request("POST", path.v, mappings, token))
                        /\ status' = Returned(r, status)
                        /\ resp' = Body(r, resp)
                        /\ exc' = final.exc
                        /\ i' = IF final.exc = "none" THEN i + 1 ELSE i
                        /\ UNCHANGED pc
        /\ UNCHANGED <<j, raws, token, created_models, devices, motor_instances,
                       created_instances, end_ts, start_ts, instances, detail, result>>

\* AttachMode that gives up an instance at its first rejected mode
AttachMode_StopsOnError ==
  /\ pc = "modes" /\ exc = "none"
  /\ \/ LoopEnds(created_instances, "start_learning")
     \/ /\ Iter(created_instances).exc = "none" /\ ~Exhausted(created_instances)
        /\ LET inst == Current(created_instances)
               mode == operation_modes[j + 1]
               path == InstancePath(inst, "/modes")
           IN IF path.exc # "none"
              THEN /\ exc' = path.exc
                   /\ UNCHANGED <<pc, i, j, log, status, resp>>
              ELSE \E raw \in ModeResponses :
                     LET r == api_request(raw)
                         shown == IF r.v.status = 201
                                  THEN Then(GetKey(mode, "name"),
                                            LAMBDA n : GetKey(inst, "name"))
                                  ELSE Ok(None)
                         final == Then(r, LAMBDA x : shown)
                     IN /\ log' = Sent(i, Request("POST", path.v, mode, token))
                        /\ status' = Returned(r, status)
                        /\ resp' = Body(r, resp)
                        /\ exc' = final.exc
                        /\ IF final.exc # "none" THEN UNCHANGED <<i, j>>
                           ELSE IF j + 1 < Len(operation_modes) /\ r.v.status = 201
                                THEN j' = j + 1 /\ UNCHANGED i
                                ELSE j' = 0 /\ i' = i + 1
                        /\ UNCHANGED pc
        /\ UNCHANGED <<raws, token, created_models, devices, motor_instances,
                       created_instances, end_ts, start_ts, instances, detail, result>>

\* lines 208-219: one mode of one instance
AttachMode ==
  /\ pc = "modes" /\ exc = "none"
  /\ \/ LoopEnds(created_instances, "start_learning")
     \/ /\ Iter(created_instances).exc = "none" /\ ~Exhausted(created_instances)
        /\ LET inst == Current(created_instances)
               mode == operation_modes[j + 1]
               path == InstancePath(inst, "/modes")
           IN IF path.exc # "none"
              THEN /\ exc' = path.exc
                   /\ UNCHANGED <<pc, i, j, log, status, resp>>
              ELSE \E raw \in ModeResponses :
                     LET r == api_request(raw)
                         shown == IF r.v.status = 201
                                  THEN Then(GetKey(mode, "name"),
                                            LAMBDA n : GetKey(inst, "name"))
                                  ELSE Ok(None)
                         final == Then(r, LAMBDA x : shown)
                     IN /\ log' = Sent(i, Request("POST", path.v, mode, token))
                        /\ status' = Returned(r, status)
                        /\ resp' = Body(r, resp)
                        /\ exc' = final.exc
                        /\ IF final.exc # "none" THEN UNCHANGED <<i, j>>
                           ELSE IF j + 1 < Len(operation_modes)
                                THEN j' = j + 1 /\ UNCHANGED i
                                ELSE j' = 0 /\ i' = i + 1
                        /\ UNCHANGED pc
        /\ UNCHANGED <<raws, token, created_models, devices, motor_instances,
                       created_instances, end_ts, start_ts, instances, detail, result>>

\* StartLearning that takes the hour in seconds
StartLearning_Seconds ==
  /\ pc = "start_learning" /\ exc = "none"
  /\ \E now \in ClockReadings :
       /\ end_ts' = Num(now)
       /\ start_ts' = Num(now - 60 * 60)
  /\ pc' = "learn"
  /\ UNCHANGED <<exc, i, j, log, raws, status, resp, token, created_models, devices,
                 motor_instances, created_instances, instances, detail, result>>

\* lines 223-224: the learning window is computed once, before the loop
StartLearning ==
  /\ pc = "start_learning" /\ exc = "none"
  /\ \E now \in ClockReadings :
       /\ end_ts' = Num(now)
       /\ start_ts' = Num(now - HourMs)
  /\ pc' = "learn"
  /\ UNCHANGED <<exc, i, j, log, raws, status, resp, token, created_models, devices,
                 motor_instances, created_instances, instances, detail, result>>

\* lines 226-236: one pass of the learning loop
Learn ==
  /\ pc = "learn" /\ exc = "none"
  /\ \/ LoopEnds(created_instances, "verify")
     \/ /\ Iter(created_instances).exc = "none" /\ ~Exhausted(created_instances)
        /\ LET inst == Current(created_instances)
               path == InstancePath(inst, "/learn-all")
               window == Dict(<< <<"startTs", start_ts>>, <<"endTs", end_ts>> >>)
           IN IF path.exc # "none"
              THEN /\ exc' = path.exc
                   /\ UNCHANGED <<pc, i, log, status, resp>>
              ELSE \E raw \in LearnResponses :
                     LET r == api_request(raw)
                         shown == IF r.v.status = 200 THEN GetKey(inst, "name")
                                  ELSE Ok(None)
                         final == Then(r, LAMBDA x : shown)
                     IN /\ log' = Sent(i, Request("POST", path.v, window, token))
                        /\ status' = Returned(r, status)
                        /\ resp' = Body(r, resp)
                        /\ exc' = final.exc
                        /\ i' = IF final.exc = "none" THEN i + 1 ELSE i
                        /\ UNCHANGED pc
        /\ UNCHANGED <<j, raws, token, created_models, devices, motor_instances,
                       created_instances, end_ts, start_ts, instances, detail, result>>

\* lines 240-243
Verify ==
  /\ pc = "verify" /\ exc = "none"
  /\ \E raw \in VerifyResponses :
       LET r == api_request(raw)
           final == Then(r, LAMBDA x : PyLen(x.body))
       IN /\ log' = Sent(0, Request("GET", <<"/motor-instances">>, None, token))
          /\ status' = Returned(r, status)
          /\ instances' = Body(r, instances)
          /\ exc' = final.exc
          /\ pc' = IF final.exc = "none" THEN "detail" ELSE pc
  /\ UNCHANGED <<i, j, raws, resp, token, created_models, devices, motor_instances,
                 created_instances, end_ts, start_ts, detail, result>>

\* lines 251-255: what is read from the detail view to print it
ShowDetail(inst, d) ==
  LET name == GetKey(inst, "name")
      model == Then(name, LAMBDA n : DictGet(d, "model", None))
      modelName == Then(model, LAMBDA m :
                      IF Truthy(m)
                      THEN Then(DictGet(d, "model", Dict(<<>>)),
                                LAMBDA mm : DictGet(mm, "name", Str("N/A")))
                      ELSE Ok(Str("N/A")))
      mappings == Then(modelName, LAMBDA n :
                      Then(DictGet(d, "mappings", List(<<>>)), PyLen))
      modes == Then(mappings, LAMBDA n :
                      Then(DictGet(d, "modes", List(<<>>)), PyLen))
  IN Then(modes, LAMBDA n : DictGet(d, "baselineCount", Num(0)))

\* lines 245-255: one pass of the detail loop
GetDetail ==
  /\ pc = "detail" /\ exc = "none"
  /\ \/ LoopEnds(instances, "diagnose")
     \/ /\ Iter(instances).exc = "none" /\ ~Exhausted(instances)
        /\ LET inst == Current(instances)
               path == InstancePath(inst, "/detail")
           IN IF path.exc # "none"
              THEN /\ exc' = path.exc
                   /\ UNCHANGED <<pc, i, log, status, detail>>
              ELSE \E raw \in DetailResponses :
                     LET r == api_request(raw)
                         final == Then(r, LAMBDA x : ShowDetail(inst, x.body))
                     IN /\ log' = Sent(i, Request("GET", path.v, None, token))
                        /\ status' = Returned(r, status)
                        /\ detail' = Body(r, detail)
                        /\ exc' = final.exc
                        /\ i' = IF final.exc = "none" THEN i + 1 ELSE i
                        /\ UNCHANGED pc
        /\ UNCHANGED <<j, raws, resp, token, created_models, devices, motor_instances,
                       created_instances, end_ts, start_ts, instances, result>>

\* Diagnose that goes over the working set of the create stage
Diagnose_WorkingSet ==
  /\ pc = "diagnose" /\ exc = "none"
  /\ \/ LoopEnds(created_instances, "done")
     \/ /\ Iter(created_instances).exc = "none" /\ ~Exhausted(created_instances)
        /\ LET inst == Current(created_instances)
               path == InstancePath(inst, "/diagnose")
           IN IF path.exc # "none"
              THEN /\ exc' = path.exc
                   /\ UNCHANGED <<pc, i, log, status, result>>
              ELSE \E raw \in DiagnoseResponses :
                     LET r == api_request(raw)
                         shown == Then(GetKey(inst, "name"), LAMBDA n :
                                    IF r.v.status = 200
                                    THEN DictGet(r.v.body, "healthScore", Str("N/A"))
                                    ELSE Ok(None))
                         final == Then(r, LAMBDA x : shown)
                     IN /\ log' = Sent(i, Request("POST", path.v, Dict(<<>>), token))
                        /\ status' = Returned(r, status)
                        /\ result' = Body(r, result)
                        /\ exc' = final.exc
                        /\ i' = IF final.exc = "none" THEN i + 1 ELSE i
                        /\ UNCHANGED pc
        /\ UNCHANGED <<j, raws, resp, token, created_models, devices, motor_instances,
                       created_instances, end_ts, start_ts, instances, detail>>

\* lines 259-269: one pass of the diagnosis loop
Diagnose ==
  /\ pc = "diagnose" /\ exc = "none"
  /\ \/ LoopEnds(instances, "done")
     \/ /\ Iter(instances).exc = "none" /\ ~Exhausted(instances)
        /\ LET inst == Current(instances)
               path == InstancePath(inst, "/diagnose")
           IN IF path.exc # "none"
              THEN /\ exc' = path.exc
                   /\ UNCHANGED <<pc, i, log, status, result>>
              ELSE \E raw \in DiagnoseResponses :
                     LET r == api_request(raw)
                         shown == Then(GetKey(inst, "name"), LAMBDA n :
                                    IF r.v.status = 200
                                    THEN DictGet(r.v.body, "healthScore", Str("N/A"))
                                    ELSE Ok(None))
                         final == Then(r, LAMBDA x : shown)
                     IN /\ log' = Sent(i, Request("POST", path.v, Dict(<<>>), token))
                        /\ status' = Returned(r, status)
                        /\ result' = Body(r, result)
                        /\ exc' = final.exc
                        /\ i' = IF final.exc = "none" THEN i + 1 ELSE i
                        /\ UNCHANGED pc
        /\ UNCHANGED <<j, raws, resp, token, created_models, devices, motor_instances,
                       created_instances, end_ts, start_ts, instances, detail>>

Next ==
  \/ Login
  \/ CreateModel
  \/ DiscoverModels
  \/ GetDevices
  \/ BuildInstances
  \/ CreateInstance
  \/ DiscoverInstances
  \/ AttachMappings
  \/ AttachMode
  \/ StartLearning
  \/ Learn
  \/ Verify
  \/ GetDetail
  \/ Diagnose

Spec == Init /\ [][Next]_vars

(***************************************************************************)
(* api_request on its own: one call with arbitrary arguments and answer     *)
(***************************************************************************)
AdapterStatuses == {200, 201, 404, 500}
AdapterTexts ==
  { JsonText(Page(RemoteModels(n))) : n \in 0..MaxItems }
  \cup { JsonText(RemoteModels(n)) : n \in 0..MaxItems }
  \cup { JsonText(Dict(<< <<"items", None>> >>)),
         JsonText(Dict(<< <<"totalCount", Num(0)>>, <<"items", Num(3)>> >>)),
         JsonText(Dict(<< <<"data", Dict(<< <<"items", List(<<>>)>> >>)>> >>)),
         JsonText(List(<< Page(RemoteModels(1)) >>)),
         JsonText(Dict(<<>>)),
         JsonText(Num(3)),
         JsonText(None),
         PlainText("error"),
         PlainText("") }
AdapterData == { None, Dict(<<>>), List(<<>>), LoginBody }
AdapterTokens == { None, Str(""), Str("abc") }
AdapterEndpoints == { <<"/motor-models">>, <<"/motor-instances/", Num(1), "/diagnose">> }

AdapterInit ==
  /\ pc = "api_request"
  /\ exc = "none"
  /\ i = 0
  /\ j = 0
  /\ log = <<>>
  /\ raws = NoRaws
  /\ status = Unset
  /\ resp = Unset
  /\ token = Unset
  /\ created_models = Unset
  /\ devices = Unset
  /\ motor_instances = Unset
  /\ created_instances = Unset
  /\ end_ts = Unset
  /\ start_ts = Unset
  /\ instances = Unset
  /\ detail = Unset
  /\ result = Unset

\* status, resp = api_request(method, endpoint, data, token)
AdapterCall ==
  /\ pc = "api_request"
  /\ \E method \in {"GET", "POST"}, endpoint \in AdapterEndpoints,
        data \in AdapterData, tok \in AdapterTokens :
       /\ token' = tok
       /\ log' = << [stage |-> 0, k |-> 0, data |-> data,
                     req |-> Request(method, endpoint, data, tok)] >>
  /\ \E code \in AdapterStatuses, text \in AdapterTexts :
       LET r == api_request(Raw(code, text))
       IN /\ raws' = [NoRaws EXCEPT !.call = << Raw(code, text) >>]
          /\ exc' = r.exc
          /\ status' = Returned(r, Unset)
          /\ resp' = Body(r, Unset)
  /\ pc' = "returned"
  /\ UNCHANGED <<i, j, created_models, devices, motor_instances,
                 created_instances, end_ts, start_ts, instances, detail, result>>

AdapterNext == AdapterCall

AdapterSpec == AdapterInit /\ [][AdapterNext]_vars

(***************************************************************************)
(* Properties                                                               *)
(***************************************************************************)
Aborted == exc # "none"
Entries == 1..Len(log)
Url(endpoint) == <<API_BASE, endpoint>>
Bearer(t) == <<"Authorization", <<"Bearer", t>> >>
HasHeader(req, h) == \E n \in 1..Len(req.headers) : req.headers[n] = h
HasAuthorization(req) ==
  \E n \in 1..Len(req.headers) : req.headers[n][1] = "Authorization"
\* the request is addressed to /motor-instances/{id}/<what>
IsInstanceCall(req, what) ==
  Len(req.url[2]) = 3 /\ req.url[2][3] = what

\* the requests each section of main may issue
FitsStage(e) ==
  CASE e.stage = 1 -> e.req.method = "POST" /\ e.req.url = Url(<<"/auth/login">>)
    [] e.stage = 2 -> e.req.url = Url(<<"/motor-models">>)
    [] e.stage = 3 -> e.req.method = "GET" /\ e.req.url = Url(<<"/devices">>)
    [] e.stage = 4 -> e.req.url = Url(<<"/motor-instances">>)
    [] e.stage = 5 -> e.req.method = "POST" /\ IsInstanceCall(e.req, "/mappings/batch")
    [] e.stage = 6 -> e.req.method = "POST" /\ IsInstanceCall(e.req, "/modes")
    [] e.stage = 7 -> e.req.method = "POST" /\ IsInstanceCall(e.req, "/learn-all")
    [] e.stage = 8 -> /\ e.req.method = "GET"
                      /\ \/ e.req.url = Url(<<"/motor-instances">>)
                         \/ IsInstanceCall(e.req, "/detail")
    [] e.stage = 9 -> e.req.method = "POST" /\ IsInstanceCall(e.req, "/diagnose")
    [] OTHER -> FALSE

\* C7: the requests of a run are issued in the order of the sections (login,
\* models, devices, instances, mappings, modes, learning, verification,
\* diagnosis): a request of an earlier section never follows a request of a
\* later one, every request is one its section issues, and none deletes.
C7_StagesForwardOnly ==
  /\ \A a, b \in Entries : a < b => log[a].stage <= log[b].stage
  /\ \A a \in Entries : FitsStage(log[a]) /\ log[a].req.method \in {"GET", "POST"}
  /\ \A a \in Entries : log[a].stage <= Stage(pc)

C7_Witness ==
  /\ pc = "done"
  /\ \A n \in 1..9 : \E a \in Entries : log[a].stage = n

\* C8 (as claimed): every request after login carries Authorization: Bearer t
\* for the token t extracted from the login response, and the login request
\* carries no Authorization header.
C8_EveryRequestBearsToken ==
  \A a \in Entries :
    IF log[a].stage = 1 THEN ~HasAuthorization(log[a].req)
    ELSE HasHeader(log[a].req, Bearer(token))

\* the login call returned an error status or a body without data.token
LoginFailed ==
  /\ Len(raws.login) = 1
  /\ LET r == api_request(raws.login[1]) IN
       \/ r.exc # "none"
       \/ ~IsSuccess(r.v.status)
       \/ GetKey(r.v.body, "data").exc # "none"
       \/ GetKey(GetKey(r.v.body, "data").v, "token").exc # "none"

\* C9: when login fails (error status, or no nested data.token in the body)
\* the run has aborted and the login request is the only request issued.
C9_LoginFailureAborts ==
  LoginFailed => Aborted /\ pc = "login" /\ Len(log) = 1 /\ token = Unset

C9_Witness ==
  /\ LoginFailed
  /\ raws.login[1].status = 401
  /\ Aborted

\* C2 (as claimed): only a login failure aborts the run; once login has
\* succeeded no response makes main raise.
C2_OnlyLoginAborts ==
  Aborted => pc = "login"

\* the POST responses a create stage has received, and its GET response
Posts(rs) ==
  SubSeq(rs, 1, IF Len(rs) < Len(motor_models) THEN Len(rs) ELSE Len(motor_models))
Any201(rs) == \E n \in 1..Len(Posts(rs)) : rs[n].status = 201
\* the entities carried by the 201 responses, in the order of the POSTs
Entities201(rs) ==
  LET created == SelectSeq(Posts(rs), LAMBDA raw : raw.status = 201)
  IN [n \in 1..Len(created) |-> created[n].text.json]
\* positions in the log of the requests of a create stage
StagePosts(stage) ==
  { a \in Entries : log[a].stage = stage /\ log[a].req.method = "POST" }
StageGets(stage) ==
  { a \in Entries : log[a].stage = stage /\ log[a].req.method = "GET" }

\* C3: in a create stage in which some POST was answered 201, the working set
\* is the list of the entities of the 201 responses in submission order, and
\* the stage issues no GET of the collection.
C3_CreatedSetIsThe201s ==
  /\ Any201(raws.models) =>
       /\ created_models = List(Entities201(raws.models))
       /\ StageGets(2) = {}
  /\ Any201(raws.instances) =>
       /\ created_instances = List(Entities201(raws.instances))
       /\ StageGets(4) = {}

\* first model 201, second model 409, and the run is past the model stage
C3_Witness ==
  /\ Stage(pc) > 2
  /\ Len(raws.models) = 2
  /\ raws.models[1].status = 201 /\ raws.models[2].status = 409
  /\ created_models = List(<< ModelEntity(1) >>)

\* C4: a create stage that has ended issued the GET of the collection exactly
\* when none of its POSTs created an item; the GET follows all the POSTs of
\* the stage, and the working set is then the body api_request returned for it.
C4_FallbackIffNothingCreated ==
  /\ Stage(pc) > 2 => (StageGets(2) # {} <=> ~Any201(raws.models))
  /\ Stage(pc) > 4 => (StageGets(4) # {} <=> ~Any201(raws.instances))
  /\ \A stage \in {2, 4} : \A g \in StageGets(stage) :
        /\ Cardinality(StageGets(stage)) = 1
        /\ Cardinality(StagePosts(stage)) = Len(motor_models)
        /\ \A a \in StagePosts(stage) : a < g
  /\ StageGets(2) # {} =>
        /\ Len(raws.models) = 3
        /\ created_models = api_request(raws.models[3]).v.body
  /\ StageGets(4) # {} =>
        /\ Len(raws.instances) = 3
        /\ created_instances = api_request(raws.instances[3]).v.body

\* both stages fell back, and the instance stage took a paginated collection
C4_Witness ==
  /\ Stage(pc) > 4
  /\ StageGets(2) # {} /\ StageGets(4) # {}
  /\ raws.instances[3].text.json.t = "dict"
  /\ created_instances = RemoteInstances(MaxItems)

\* every POST of the stage was rejected as a duplicate
AllRejected(rs) ==
  Len(rs) >= Len(motor_models) /\ \A n \in 1..Len(motor_models) : rs[n].status = 409
\* the answer to the GET is the remote collection, bare or paginated, and
\* holds at least one entity
RemoteHasSome(rs) ==
  /\ Len(rs) = 3
  /\ rs[3].status = 200
  /\ LET body == rs[3].text.json
         list == IF body.t = "dict" /\ HasKey(body, "items")
                 THEN KeyValue(body, "items") ELSE body
     IN list.t = "list" /\ Len(list.l) >= 1

\* C1: when every create POST is rejected as a duplicate and the remote
\* collection holds at least one entity, the create stage does not raise: it
\* issues the GET of the collection and ends with a working set that is a
\* list of at least one entity.
C1_RerunFallsBackToDiscovery ==
  /\ AllRejected(raws.models) /\ RemoteHasSome(raws.models) =>
       /\ Stage(pc) > 2
       /\ StageGets(2) # {}
       /\ created_models.t = "list" /\ Len(created_models.l) >= 1
  /\ AllRejected(raws.instances) /\ RemoteHasSome(raws.instances) =>
       /\ Stage(pc) > 4
       /\ StageGets(4) # {}
       /\ created_instances.t = "list" /\ Len(created_instances.l) >= 1
  /\ AllRejected(raws.models) /\ Len(raws.models) = Len(motor_models) /\ ~Aborted =>
       pc = "discover_models"
  /\ AllRejected(raws.instances) /\ Len(raws.instances) = Len(motor_models) /\ ~Aborted =>
       pc = "discover_instances"

\* a whole run whose two create stages both fell back to discovery
C1_Witness ==
  /\ pc = "done"
  /\ AllRejected(raws.models) /\ RemoteHasSome(raws.models)
  /\ AllRejected(raws.instances) /\ RemoteHasSome(raws.instances)
  /\ raws.models[3].text.json.t = "dict"

\* the entries of the log that address /motor-instances/{id}/<what>
CallsTo(what) == { a \in Entries : IsInstanceCall(log[a].req, what) }
\* the working set of the attachment stages, as the loops visit it
WorkingSet == Iter(created_instances).v
\* the deviceId of an element of the working set is a key of the static table
InTable(inst) ==
  /\ inst.t = "dict" /\ HasKey(inst, "deviceId")
  /\ KeyValue(inst, "deviceId").t = "str"
  /\ KeyValue(inst, "deviceId").s \in {"Motor-001", "SIM-PLC-001"}

\* C5: every mappings/batch POST is for an element of the working set whose
\* deviceId is a key of the static table, is addressed to that element's
\* instanceId, carries that key's list of mappings, and is the only batch call
\* for that element; elements with deviceId Unknown-999 get none.
C5_BatchOnlyForTableDevices ==
  /\ \A a \in CallsTo("/mappings/batch") :
        /\ log[a].k < Len(WorkingSet)
        /\ LET inst == WorkingSet[log[a].k + 1] IN
             /\ InTable(inst)
             /\ log[a].req.url[2][2] = KeyValue(inst, "instanceId")
             /\ log[a].req.body =
                  JsonText(KeyValue(parameter_mappings, KeyValue(inst, "deviceId").s))
        /\ \A b \in CallsTo("/mappings/batch") : log[b].k = log[a].k => a = b
  /\ Stage(pc) > 5 =>
        \A n \in 1..Len(WorkingSet) :
          InTable(WorkingSet[n]) <=>
            \E a \in CallsTo("/mappings/batch") : log[a].k = n - 1

\* the mapping stage has ended over a working set that holds an instance of
\* device Unknown-999 and an instance of a device of the table
C5_Witness ==
  /\ Stage(pc) > 5
  /\ \E n \in 1..Len(WorkingSet) :
        /\ KeyValue(WorkingSet[n], "deviceId") = Str("Unknown-999")
        /\ \A a \in CallsTo("/mappings/batch") : log[a].k # n - 1
  /\ \E a \in CallsTo("/mappings/batch") :
        KeyValue(WorkingSet[log[a].k + 1], "deviceId") = Str("SIM-PLC-001")

\* C6 (as claimed): every modes POST is for an element of the working set
\* whose deviceId is a key of the static table.
C6_ModesOnlyForTableDevices ==
  \A a \in CallsTo("/modes") :
    /\ log[a].k < Len(WorkingSet)
    /\ InTable(WorkingSet[log[a].k + 1])

\* the parsed JSON body of a raw response is a mapping with an items field
IsEnvelope(raw) ==
  /\ "json" \in DOMAIN raw.text
  /\ raw.text.json.t = "dict"
  /\ \E n \in 1..Len(raw.text.json.kv) : raw.text.json.kv[n][1] = "items"
ItemsOf(raw) ==
  LET kv == raw.text.json.kv
  IN kv[CHOOSE n \in 1..Len(kv) : kv[n][1] = "items"][2]

\* C10: for a successful response whose parsed body is a mapping with an
\* items field, api_request returns the response status and the value of that
\* field, not the envelope.
C10_ItemsUnwrapped ==
  \A n \in 1..Len(raws.call) :
    IsSuccess(raws.call[n].status) /\ IsEnvelope(raws.call[n]) =>
      /\ exc = "none"
      /\ status = Num(raws.call[n].status)
      /\ resp = ItemsOf(raws.call[n])

C10_Witness ==
  /\ raws.call = << Raw(201, JsonText(Page(RemoteModels(MaxItems)))) >>
  /\ resp = RemoteModels(MaxItems)
  /\ status = Num(201)

\* C11: for a successful response whose parsed body has no items field (a
\* list, a scalar, null, or a mapping without that key) api_request returns
\* the response status and the parsed body unchanged.
C11_OtherBodiesUnchanged ==
  \A n \in 1..Len(raws.call) :
    /\ IsSuccess(raws.call[n].status)
    /\ "json" \in DOMAIN raws.call[n].text
    /\ ~IsEnvelope(raws.call[n])
    => /\ exc = "none"
       /\ status = Num(raws.call[n].status)
       /\ resp = raws.call[n].text.json

\* a mapping that holds an items field one level down is returned whole
C11_Witness ==
  /\ raws.call =
       << Raw(200, JsonText(Dict(<< <<"data", Dict(<< <<"items", List(<<>>)>> >>)>> >>))) >>
  /\ resp = Dict(<< <<"data", Dict(<< <<"items", List(<<>>)>> >>)>> >>)

\* C12: for a response with an HTTP error status api_request returns that
\* status and the response text as a str: the text is neither parsed nor
\* unwrapped, also when it is a JSON mapping with an items field, and no
\* exception reaches the caller.
C12_ErrorBodyIsRawText ==
  \A n \in 1..Len(raws.call) :
    ~IsSuccess(raws.call[n].status) =>
      /\ exc = "none"
      /\ status = Num(raws.call[n].status)
      /\ resp.t = "str"
      /\ resp = Decode(raws.call[n].text)

\* an error answer whose text is a pagination envelope
C12_Witness ==
  /\ raws.call = << Raw(500, JsonText(Page(RemoteModels(MaxItems)))) >>
  /\ exc = "none"
  /\ resp = Decode(JsonText(Page(RemoteModels(MaxItems))))
  /\ resp # RemoteModels(MaxItems)

\* the window a learn-all request carries
WindowOf(a) == log[a].req.body.json
\* the requests to /motor-instances/{id}/<what> made for element n of ws
CallsFor(what, ws, n) ==
  { a \in CallsTo(what) :
      log[a].k = n - 1 /\ log[a].req.url[2][2] = KeyValue(ws[n], "instanceId") }

\* C13: every learn-all request carries startTs and endTs that are
\* 3600000 ms apart, all learn-all requests of a run carry the same window,
\* no instance of the working set gets two of them, and when the learning
\* section has ended each instance of the working set has got exactly one.
C13_OneHourWindowOncePerInstance ==
  /\ \A a \in CallsTo("/learn-all") :
        /\ log[a].req.method = "POST"
        /\ KeyValue(WindowOf(a), "endTs").n - KeyValue(WindowOf(a), "startTs").n = 3600000
        /\ WindowOf(a) = Dict(<< <<"startTs", start_ts>>, <<"endTs", end_ts>> >>)
        /\ \A b \in CallsTo("/learn-all") :
              /\ WindowOf(b) = WindowOf(a)
              /\ log[b].k = log[a].k => a = b
  /\ Stage(pc) > 7 =>
        /\ Cardinality(CallsTo("/learn-all")) = Len(WorkingSet)
        /\ \A n \in 1..Len(WorkingSet) :
              Cardinality(CallsFor("/learn-all", WorkingSet, n)) = 1

\* the learning section has ended over a working set of MaxItems instances
C13_Witness ==
  /\ Stage(pc) > 7
  /\ Len(WorkingSet) = MaxItems
  /\ Cardinality(CallsTo("/learn-all")) = MaxItems
  /\ end_ts.n - start_ts.n = 3600000

\* the entities a response of the model stage carries: the body itself, the
\* elements of a list body, or the elements of the items of an envelope
EntitiesOf(raw) ==
  IF ~("json" \in DOMAIN raw.text) \/ ~IsSuccess(raw.status) THEN {}
  ELSE LET body == raw.text.json
           list == IF IsEnvelope(raw) THEN ItemsOf(raw) ELSE body
       IN IF list.t = "list" THEN { list.l[n] : n \in 1..Len(list.l) }
          ELSE { body }
\* the modelIds the remote system has handed out in the model stage
RemoteModelIds ==
  UNION { { KeyValue(e, "modelId") : e \in { x \in EntitiesOf(raws.models[n]) :
                                              x.t = "dict" /\ HasKey(x, "modelId") } }
          : n \in 1..Len(raws.models) }
\* the element of the model working set the instance item k refers to
ModelElementFor(k) ==
  IF k = 0 THEN 1 ELSE IF Len(created_models.l) > 1 THEN 2 ELSE 1

\* C14: every instance-creation POST carries the modelId of an element of the
\* model working set: item 0 that of element 0, item 1 that of element 1 when
\* the set has more than one element and of element 0 otherwise; the value is
\* one the remote system returned in the model stage.
C14_InstanceReferencesWorkingSetModel ==
  \A a \in StagePosts(4) :
    LET payload == log[a].req.body.json
    IN /\ log[a].req.url = Url(<<"/motor-instances">>)
       /\ log[a].k \in {0, 1}
       /\ created_models.t = "list" /\ Len(created_models.l) >= 1
       /\ KeyValue(payload, "modelId")
            = KeyValue(created_models.l[ModelElementFor(log[a].k)], "modelId")
       /\ KeyValue(payload, "modelId") \in RemoteModelIds

\* both instances were POSTed over a working set of two different models
C14_Witness ==
  /\ Cardinality(StagePosts(4)) = 2
  /\ Len(created_models.l) = 2
  /\ KeyValue(created_models.l[1], "modelId") # KeyValue(created_models.l[2], "modelId")
  /\ \E a \in StagePosts(4) :
        /\ log[a].k = 1
        /\ KeyValue(log[a].req.body.json, "modelId") = KeyValue(created_models.l[2], "modelId")

\* the answer to GET /devices holds a list: it is one, or the items of its
\* envelope or its data field are one
HoldsList(raw) ==
  /\ IsSuccess(raw.status)
  /\ "json" \in DOMAIN raw.text
  /\ LET body == raw.text.json
     IN \/ body.t = "list"
        \/ IsEnvelope(raw) /\ ItemsOf(raw).t = "list"
        \/ body.t = "dict" /\ HasKey(body, "data") /\ KeyValue(body, "data").t = "list"

\* C15: once GET /devices has been answered, the devices stage has raised
\* nothing, devices is a list, and it is the empty list whenever the answer
\* held no list (an error string, a mapping with or without a data field, any
\* other value).
C15_NonListDevicesCoerced ==
  \A n \in 1..Len(raws.devices) :
    /\ ~(pc = "get_devices" /\ exc # "none")
    /\ devices.t = "list"
    /\ ~HoldsList(raws.devices[n]) => devices = List(<<>>)

\* the n-th POST of a create stage submits item n of the list, serialized
InListOrder(stage, endpoint, items) ==
  \A a \in StagePosts(stage) :
    /\ log[a].k = Cardinality({ b \in StagePosts(stage) : b < a })
    /\ log[a].k < Len(items)
    /\ log[a].req.url = Url(endpoint)
    /\ log[a].req.body = json_dumps(items[log[a].k + 1])
\* the latest answer of a create stage is not a 2xx
LastRejected(rs) == Len(rs) >= 1 /\ ~IsSuccess(rs[Len(rs)].status)
\* the POST loop of the model stage, of the instance stage, has ended
ModelPostsOver == pc = "discover_models" \/ Stage(pc) > 2
InstancePostsOver == pc = "discover_instances" \/ Stage(pc) > 4

\* C16: in both create stages the n-th POST submits item n of the fixed list
\* (so no item is POSTed twice or out of order); a non-2xx answer raises
\* nothing in the loop and adds nothing to the working set; and when the loop
\* has ended every item has been POSTed exactly once, whatever the answers.
C16_EveryItemPostedOnce ==
  /\ InListOrder(2, <<"/motor-models">>, motor_models)
  /\ InListOrder(4, <<"/motor-instances">>, motor_instances)
  /\ pc = "create_models" /\ LastRejected(raws.models) => exc = "none"
  /\ pc = "create_instances" /\ LastRejected(raws.instances) => exc = "none"
  /\ pc = "create_models" /\ raws.models # <<>> =>
        created_models = List(Entities201(raws.models))
  /\ pc = "create_instances" /\ raws.instances # <<>> =>
        created_instances = List(Entities201(raws.instances))
  /\ ModelPostsOver => Cardinality(StagePosts(2)) = Len(motor_models)
  /\ InstancePostsOver => Cardinality(StagePosts(4)) = Len(motor_instances)

\* the first model was rejected, the second was POSTed and created, and the
\* run has gone on to the attachment stages
C16_Witness ==
  /\ Stage(pc) >= 5
  /\ Len(raws.models) = Len(motor_models)
  /\ raws.models[1].status = 409
  /\ raws.models[2].status = 201
  /\ Len(created_models.l) = 1
  /\ Cardinality(StagePosts(2)) = Len(motor_models)

\* C17: a call of api_request that is passed a body sends its JSON
\* serialization, the empty mapping {} included, and a request goes out
\* without a body only when the call was passed none.
C17_BodySentWheneverPassed ==
  \A a \in Entries :
    /\ log[a].data # None => log[a].req.body = json_dumps(log[a].data)
    /\ log[a].req.body = None => log[a].data = None

\* the mode requests, and the number of them issued before request a
ModeCalls == CallsTo("/modes")
ModesBefore(a) == Cardinality({ b \in ModeCalls : b < a })
\* the order the modes are to be submitted in
ModeNames == << "Normal Operation", "Low Speed", "Idle/Standby" >>

\* C18: the mode POSTs go out one at a time; the n-th of them submits mode
\* n mod 3 of the fixed order Normal Operation, Low Speed, Idle/Standby
\* (priority 1, 2, 3) to instance n div 3 of the working set, so that the
\* three modes of an instance precede every mode of the next; the loop
\* advances after every answer, and when the mode section has ended every
\* instance has got all three modes, whatever the answers were.
C18_ModesInFixedOrder ==
  /\ \A a \in ModeCalls :
        LET n == ModesBefore(a)
            mode == log[a].req.body.json
        IN /\ log[a].req.method = "POST"
           /\ log[a].k = n \div Len(ModeNames)
           /\ log[a].req.url[2][2]
                = KeyValue(WorkingSet[(n \div Len(ModeNames)) + 1], "instanceId")
           /\ log[a].req.body = json_dumps(operation_modes[(n % Len(ModeNames)) + 1])
           /\ KeyValue(mode, "name") = Str(ModeNames[(n % Len(ModeNames)) + 1])
           /\ KeyValue(mode, "priority") = Num((n % Len(ModeNames)) + 1)
  /\ pc = "modes" /\ exc = "none" =>
        Cardinality(ModeCalls) = Len(ModeNames) * i + j
  /\ Stage(pc) > 6 => Cardinality(ModeCalls) = Len(ModeNames) * Len(WorkingSet)

\* the first mode of the second instance was rejected and the loop stands
\* at its second mode
C18_Witness ==
  /\ pc = "modes" /\ exc = "none"
  /\ status = Num(409)
  /\ i = 1 /\ j = 1
  /\ Cardinality(ModeCalls) = Len(ModeNames) + 1

\* the requests of the verification and diagnosis sections
Observing == { a \in Entries : log[a].stage \in {8, 9} }
DetailCalls == CallsTo("/detail")
DiagnoseCalls == CallsTo("/diagnose")
\* the re-fetched collection, as the two loops visit it
Refetched == Iter(instances).v
\* the request at position a is the n-th of cs and is for element n of Refetched
ForRefetched(cs, a) ==
  LET n == Cardinality({ b \in cs : b < a }) + 1
  IN /\ log[a].k = n - 1
     /\ n <= Len(Refetched)
     /\ log[a].req.url[2][2] = KeyValue(Refetched[n], "instanceId")

\* C19: the verification and diagnosis sections begin with the GET of
\* /motor-instances and issue, besides it, only detail GETs and diagnose POSTs;
\* the n-th detail GET and the n-th diagnose POST are for element n of the
\* collection that GET returned, every detail GET precedes every diagnose
\* POST, and when a section has ended each re-fetched instance has got exactly
\* one request of it.
C19_ObservationUsesRefetched ==
  /\ \A a \in Observing :
        \/ /\ log[a].req.method = "GET"
           /\ log[a].req.url = Url(<<"/motor-instances">>)
           /\ \A b \in Observing : a <= b
        \/ a \in DetailCalls /\ log[a].req.method = "GET"
        \/ a \in DiagnoseCalls /\ log[a].req.method = "POST"
  /\ DetailCalls \cup DiagnoseCalls \subseteq Observing
  /\ \A a \in DetailCalls : ForRefetched(DetailCalls, a)
  /\ \A a \in DiagnoseCalls :
        /\ ForRefetched(DiagnoseCalls, a)
        /\ \A b \in DetailCalls : b < a
        /\ Cardinality(DetailCalls) = Len(Refetched)
  /\ Stage(pc) > 8 => Cardinality(DetailCalls) = Len(Refetched)
  /\ Stage(pc) > 9 => Cardinality(DiagnoseCalls) = Len(Refetched)

\* the run has ended over a re-fetched collection of MaxItems instances that
\* is not the working set of the create stage
C19_Witness ==
  /\ pc = "done"
  /\ Len(Refetched) = MaxItems
  /\ instances # created_instances
  /\ Len(WorkingSet) < MaxItems
  /\ Cardinality(DetailCalls) = MaxItems
  /\ Cardinality(DiagnoseCalls) = MaxItems

====
